---- MODULE Spec2Model ----
(***************************************************************************)
(* gopassivedns (src/main.go): the capture loop hands packets to 8 worker  *)
(* goroutines by flow hash; each worker keeps a map from DNS transaction   *)
(* ID to the pending query (conntable), swept by its own cleanDnsCache     *)
(* goroutine; a matched query/response pair is turned into log records by  *)
(* initLogEntry and pushed on the unbuffered log channel, which logConn    *)
(* drains.                                                                 *)
(***************************************************************************)
EXTENDS Integers, Sequences, FiniteSets, TLC

\* ------------------------------------------------------------------ bounds
\* packets the capture source supplies in one run
MaxPackets == 3
\* last clock reading (ticks of one minute)
MaxTime == 3
\* GC sweeps started in one run, over all shards
MaxSweeps == 1
\* answer records of a response
MaxAnswers == 2
\* octets of a TCP payload
MaxPayload == 4
\* packets in a run that looks at the order of the records only
MaxBurst == 4
\* in a run that measures how long an entry lives: where the clock stops,
LifeTime == 8
\* how many sweeps start,
LifeSweeps == 2
\* and how many minutes a sweep may take
SweepTicks == 1

\* -------------------------------------------------------- program constants
\* channels [8]chan gopacket.Packet
NumShards == 8
\* the mask of channels[int(hash)&0x7]
ShardMask == 7
\* flag gc_age default "-1m", in minutes
GcAge == -1
\* flag gc_interval default "3m", in minutes
GcInterval == 3
\* layers.DNSOpCodeQuery
DNSOpCodeQuery == 0
\* LayerContents()[2:], the octets of the DNS-over-TCP length field
TcpLengthPrefix == 2
\* width of the modelled flow hash (uint64 in gopacket, 8 bits here)
HashBits == 8
\* low byte of gopacket's fnvPrime, the multiplier of Flow.FastHash
FnvPrimeLow == 179

Shards == 0 .. (NumShards - 1)
TxIds == {1, 2}
Nil == "<nil>"
NoDNS == [none |-> TRUE]
NoEntry == [absent |-> TRUE]
NoPacket == [nopacket |-> TRUE]

\* ------------------------------------------------------------ DNS messages
\* a resource record as gopacket decodes it: the typed field of its Type is
\* filled in, Data holds the raw bytes
MkRR(t, ttl) ==
  [Type |-> t, TTL |-> ttl,
   IP |-> IF t \in {1, 28} THEN "93.184.216.34" ELSE Nil,
   CNAME |-> IF t = 5 THEN "www.example.net" ELSE "",
   MX |-> IF t = 15 THEN "mail.example.net" ELSE "",
   NS |-> IF t = 2 THEN "ns.example.net" ELSE "",
   PTR |-> IF t = 12 THEN "ptr.example.net" ELSE "",
   TXT |-> IF t = 16 THEN "text" ELSE "",
   SOA |-> IF t = 6 THEN "hostmaster.example.net" ELSE "",
   SRV |-> IF t = 33 THEN "srv.example.net" ELSE "",
   Data |-> "raw"]

\* a question of the question section
MkQuestion(name, t) == [Name |-> name, Type |-> t]

\* a decoded DNS message (layers.DNS)
MkDNS(id, qr, op, rc, qs, as) ==
  [ID |-> id, QR |-> qr, OpCode |-> op, ResponseCode |-> rc,
   Questions |-> qs, Answers |-> as]

\* strconv.Itoa
Itoa(n) == ToString(n)

TypeString(dnsType) ==
  CASE dnsType = 1 -> "A"
    [] dnsType = 28 -> "AAAA"
    [] dnsType = 5 -> "CNAME"
    [] dnsType = 15 -> "MX"
    [] dnsType = 2 -> "NS"
    [] dnsType = 12 -> "PTR"
    [] dnsType = 16 -> "TXT"
    [] dnsType = 6 -> "SOA"
    [] dnsType = 33 -> "SRV"
    [] dnsType = 255 -> "ANY"
    [] OTHER -> Itoa(dnsType)

RrString(rr) ==
  CASE rr.Type = 1 -> rr.IP
    [] rr.Type = 28 -> rr.IP
    [] rr.Type = 5 -> rr.CNAME
    [] rr.Type = 15 -> rr.MX
    [] rr.Type = 2 -> rr.NS
    [] rr.Type = 12 -> rr.PTR
    [] rr.Type = 16 -> rr.TXT
    [] rr.Type = 6 -> rr.SOA
    [] rr.Type = 33 -> rr.SRV
    [] OTHER -> rr.Data

\* layers.DNSResponseCode.String()
ResponseCodeString(rc) ==
  CASE rc = 0 -> "No Error"
    [] rc = 2 -> "Server Failure"
    [] rc = 3 -> "Non-Existent Domain"
    [] OTHER -> "Unknown"

\* ---------------------------------------------------------------- packets
\* a decoded packet as the program reads it: the network layer and its
\* addresses, the transport layer, the DNS layer gopacket decoded (UDP), and
\* the contents of the "Payload" layer (TCP). seq is its number in capture
\* order; re is the number of the query it was sent in reply to (0: none).
MkPacket(seq, re, net, src, dst, transport, dns, hasPayload, payload) ==
  [seq |-> seq, re |-> re, net |-> net, src |-> src, dst |-> dst,
   transport |-> transport, dns |-> dns, hasPayload |-> hasPayload,
   payload |-> payload]

\* src and dst of the IPv4 or IPv6 layer, nil for any other packet
getIpaddrs(packet) ==
  IF packet.net = "ip4" THEN <<packet.src, packet.dst>>
  ELSE IF packet.net = "ip6" THEN <<packet.src, packet.dst>>
  ELSE <<Nil, Nil>>

\* one dnsLogEntry
MkLogEntry(id, rc, q, qt, a, at, ttl, server, client, ts) ==
  [Query_ID |-> id, Response_Code |-> rc, Question |-> q, Question_Type |-> qt,
   Answer |-> a, Answer_Type |-> at, TTL |-> ttl, Server |-> server,
   Client |-> client, Timestamp |-> ts]

\* the record of a response whose status is not success
FailureEntry(srcIP, dstIP, question, reply, t) ==
  MkLogEntry(reply.ID, reply.ResponseCode, question.Questions[1].Name,
             TypeString(question.Questions[1].Type),
             ResponseCodeString(reply.ResponseCode), "", 0, srcIP, dstIP, t)

\* the record of one answer of a successful response
AnswerEntry(srcIP, dstIP, question, reply, answer, t) ==
  MkLogEntry(reply.ID, reply.ResponseCode, question.Questions[1].Name,
             TypeString(question.Questions[1].Type),
             RrString(answer), TypeString(answer.Type), answer.TTL,
             srcIP, dstIP, t)

\* question.Questions[0] of an empty question section: index out of range
QuestionsPanic(question) == Len(question.Questions) = 0

\* the records initLogEntry returns at clock reading t, or the run-time panic
\* it dies of: [panic, recs]
initLogEntry(srcIP, dstIP, question, reply, t) ==
  IF reply.ResponseCode # 0
    THEN IF QuestionsPanic(question)
           THEN [panic |-> TRUE, recs |-> <<>>]
           ELSE [panic |-> FALSE,
                 recs |-> <<FailureEntry(srcIP, dstIP, question, reply, t)>>]
    ELSE IF Len(reply.Answers) > 0 /\ QuestionsPanic(question)
           THEN [panic |-> TRUE, recs |-> <<>>]
           ELSE [panic |-> FALSE,
                 recs |-> [i \in 1 .. Len(reply.Answers) |->
                            AnswerEntry(srcIP, dstIP, question, reply,
                                        reply.Answers[i], t)]]

\* ----------------------------------------------------------- DNS over TCP
\* octets the decoder needs before it accepts a message (12 on the wire, 2 in
\* the model: the ID, then a flags octet)
DnsHeaderLen == 2

\* gopacket's DNS decoder on raw octets: the message, or NoDNS for octets that
\* do not decode. Octet 1 is the ID; octet 2 holds QR (bit 0) and whether a
\* question follows (bit 1).
DecodeDNS(octets) ==
  IF Len(octets) < DnsHeaderLen THEN NoDNS
  ELSE MkDNS(octets[1], octets[2] % 2 = 1, DNSOpCodeQuery, 0,
             IF (octets[2] \div 2) % 2 = 1
               THEN <<MkQuestion("example.com", 1)>> ELSE <<>>,
             <<>>)

\* contents[n:] of a Go slice; the caller checks n <= Len(contents)
SliceFrom(contents, n) == SubSeq(contents, n + 1, Len(contents))

\* the TCP branch of getDnsLayer on the contents of the Payload layer.
\* contents[2:] panics on fewer than 2 octets. gopacket.NewPacket never
\* returns nil: octets that do not decode leave a DecodeFailure layer first,
\* and the unchecked type assertion to *layers.DNS panics on it.
TcpDnsLayer(contents) ==
  IF Len(contents) < TcpLengthPrefix THEN [panic |-> TRUE, dns |-> NoDNS]
  ELSE LET d == DecodeDNS(SliceFrom(contents, TcpLengthPrefix))
       IN IF d = NoDNS THEN [panic |-> TRUE, dns |-> NoDNS]
          ELSE [panic |-> FALSE, dns |-> d]

\* the DNS message of a packet, NoDNS for "not DNS", or the panic: [panic, dns]
getDnsLayer(packet) ==
  IF packet.transport = "udp" THEN [panic |-> FALSE, dns |-> packet.dns]
  ELSE IF packet.transport = "tcp"
    THEN IF packet.hasPayload THEN TcpDnsLayer(packet.payload)
         ELSE [panic |-> FALSE, dns |-> NoDNS]
  ELSE [panic |-> FALSE, dns |-> NoDNS]

\* ------------------------------------------------------------ flow sharder
\* fnvHash of an endpoint's address octets
EndpointHash(e) ==
  CASE e = "10.0.0.1" -> 17
    [] e = "10.0.0.2" -> 44
    [] e = "8.8.8.8" -> 5
    [] OTHER -> 0

\* gopacket Flow.FastHash: commutative in the two endpoints
FastHash(src, dst) ==
  ((EndpointHash(src) + EndpointHash(dst)) * FnvPrimeLow) % (2 ^ HashBits)

\* int(h) of an unsigned hash: the same bits read as a signed integer
ToInt(h) == IF h >= 2 ^ (HashBits - 1) THEN h - 2 ^ HashBits ELSE h

\* i & mask for a mask of the form 2^k - 1, on two's complement
BitAnd(i, mask) == i % (mask + 1)

\* an index taken from the hash of the source endpoint alone
ShardIndexOneWay(packet) ==
  BitAnd(ToInt((EndpointHash(packet.src) * FnvPrimeLow) % (2 ^ HashBits)), ShardMask)

\* the index of channels[int(net.NetworkFlow().FastHash())&0x7]
ShardIndex(packet) == BitAnd(ToInt(FastHash(packet.src, packet.dst)), ShardMask)

\* ------------------------------------------------------------------- state
VARIABLES
  now,        \* the wall clock, in minutes
  captured,   \* the packets the capture source has supplied, in order
  outcome,    \* what became of each captured packet: kind "queued", "dropped",
              \* "handling", "nodns", "opcode", "miss", "store", "match",
              \* "panic", or "expired" for a stored query a sweep deleted;
              \* shard: the worker that got it; q: the query matched (match)
              \* or overwritten (store)
  dpc,        \* doCapture: "read" at the packet source, "send" at channels[i] <-
  dpkt,       \* the packet doCapture is handing over
  dchan,      \* the index of the channel it hands it to
  wpc,        \* handlePacket of each shard: "recv", "lookup", "delete", "insert", "send"
  wpkt,       \* the packet it is handling
  witem,      \* item of item, foundItem := conntable[dns.ID]
  wout,       \* the records of the match still to be put on logC
  conntable,  \* of each shard: transaction ID -> dnsMapEntry
  gpc,        \* cleanDnsCache of each shard: "sleep", "iter", "del"
  wakeAt,     \* when its time.Sleep(interval) ends
  cutoff,     \* its cleanupCutoff
  todo,       \* the keys its range loop has still to visit
  gkey,       \* the key it is about to delete
  sweeps,     \* sweeps started so far
  sweepAt,    \* of each shard: the clock reading when its latest sweep began
              \* (-1: none yet)
  fault,      \* "none", or how the process ended: "panic", "fatal", or
              \* "exit" when main returned
  quiet,      \* flag -quiet
  filename,   \* flag -logfile
  lpc,        \* logConn: "recv" at logC, "send" at logChan <- message
  lmsg,       \* the message logConn is fanning out
  lidx,       \* the index in logs of the sink it sends to next
  emitted,    \* <<shard, record>> of every record logC accepted, in order
  sinkmsg,    \* of each sink: the message it has received and is writing
  printed,    \* the records each sink has written
  call,       \* arguments of a direct call of initLogEntry or getDnsLayer
  ret         \* its result

vars ==
  <<now, captured, outcome, dpc, dpkt, dchan, wpc, wpkt, witem, wout,
    conntable, gpc, wakeAt, cutoff, todo, gkey, sweeps,
    sweepAt, fault, quiet, filename, lpc, lmsg, lidx, emitted, sinkmsg,
    printed, call, ret>>

captureVars == <<captured, dpc, dpkt, dchan>>
workerVars == <<wpc, wpkt, witem, wout>>
gcVars == <<gpc, wakeAt, cutoff, todo, gkey, sweeps, sweepAt>>
logVars == <<lpc, lmsg, lidx, emitted, sinkmsg, printed>>
flagVars == <<quiet, filename>>
callVars == <<call, ret>>

NoCall == [fn |-> "none"]

\* the sinks logConn sets up, in the order it appends their channels to logs
Logs(q, f) ==
  (IF ~q THEN <<"stdout">> ELSE <<>>) \o (IF f # "" THEN <<"file">> ELSE <<>>)

\* the state right after main has started every goroutine
InitPipeline ==
  /\ now = 0
  /\ captured = <<>>
  /\ outcome = <<>>
  /\ dpc = "read"
  /\ dpkt = NoPacket
  /\ dchan = 0
  /\ wpc = [s \in Shards |-> "recv"]
  /\ wpkt = [s \in Shards |-> NoPacket]
  /\ witem = [s \in Shards |-> NoEntry]
  /\ wout = [s \in Shards |-> <<>>]
  /\ conntable = [s \in Shards |-> [x \in TxIds |-> NoEntry]]
  /\ gpc = [s \in Shards |-> "sleep"]
  /\ wakeAt = [s \in Shards |-> GcInterval]
  /\ cutoff = [s \in Shards |-> 0]
  /\ todo = [s \in Shards |-> {}]
  /\ gkey = [s \in Shards |-> 0]
  /\ sweeps = 0
  /\ sweepAt = [s \in Shards |-> -1]
  /\ fault = "none"
  /\ lpc = "recv"
  /\ lmsg = NoPacket
  /\ lidx = 0
  /\ emitted = <<>>
  /\ sinkmsg = [k \in {"stdout", "file"} |-> NoPacket]
  /\ printed = [k \in {"stdout", "file"} |-> <<>>]

Init ==
  /\ InitPipeline
  /\ quiet = FALSE
  /\ filename = ""
  /\ call = NoCall
  /\ ret = NoCall

\* ---------------------------------------------------------- capture source
Client1 == "10.0.0.1"
Client2 == "10.0.0.2"
Server == "8.8.8.8"

\* the answer sections of the model: the first n of A, CNAME, type 99, A, ...
AnswerPool(i) ==
  CASE i % 3 = 1 -> MkRR(1, 3600)
    [] i % 3 = 2 -> MkRR(5, 300)
    [] OTHER -> MkRR(99, 60)

AnswerList(n) == [i \in 1 .. n |-> AnswerPool(i)]

\* status and answers of the replies a server sends
ReplyBodies ==
  {<<0, AnswerList(n)>> : n \in {0, 1, MaxAnswers}} \cup {<<3, AnswerList(0)>>}

IsQuery(p) ==
  /\ p.transport = "udp"
  /\ p.dns # NoDNS
  /\ ~p.dns.QR
  /\ p.dns.OpCode = DNSOpCodeQuery

\* a query for transaction ID id on flow f with question section qs
Query(seq, f, id, qs) ==
  MkPacket(seq, 0, "ip4", f[1], f[2], "udp",
           MkDNS(id, FALSE, DNSOpCodeQuery, 0, qs, <<>>), FALSE, <<>>)

\* the queries of the model: two IDs on one flow, one ID on a second flow,
\* and a query whose question section is empty
QueryPackets(seq) ==
  {Query(seq, <<Client1, Server>>, 1, <<MkQuestion("example.com", 1)>>),
   Query(seq, <<Client1, Server>>, 2, <<MkQuestion("example.org", 28)>>),
   Query(seq, <<Client1, Client2>>, 1, <<MkQuestion("example.net", 255)>>),
   Query(seq, <<Client1, Server>>, 1, <<>>)}

\* the reply to query q: same ID, the flow reversed, the question echoed
Reply(seq, q, body) ==
  MkPacket(seq, q.seq, q.net, q.dst, q.src, "udp",
           MkDNS(q.dns.ID, TRUE, DNSOpCodeQuery, body[1], q.dns.Questions, body[2]),
           FALSE, <<>>)

ReplyPackets(seq, sofar) ==
  {Reply(seq, sofar[i], body) :
     i \in {j \in 1 .. Len(sofar) : IsQuery(sofar[j])}, body \in ReplyBodies}

\* packets that are neither a query nor the reply to a captured query
OtherPackets(seq) ==
  { \* a response nobody asked for
    MkPacket(seq, 0, "ip4", Server, Client1, "udp",
             MkDNS(2, TRUE, DNSOpCodeQuery, 0, <<MkQuestion("example.com", 1)>>,
                   AnswerList(1)), FALSE, <<>>),
    \* a dynamic update (opcode 5)
    MkPacket(seq, 0, "ip4", Client1, Server, "udp",
             MkDNS(1, FALSE, 5, 0, <<MkQuestion("example.com", 6)>>, <<>>),
             FALSE, <<>>),
    \* the response to a dynamic update
    MkPacket(seq, 0, "ip4", Server, Client1, "udp",
             MkDNS(1, TRUE, 5, 0, <<MkQuestion("example.com", 6)>>, <<>>),
             FALSE, <<>>),
    \* no network layer
    MkPacket(seq, 0, "none", Nil, Nil, "none", NoDNS, FALSE, <<>>),
    \* UDP that is not DNS
    MkPacket(seq, 0, "ip6", Client1, Server, "udp", NoDNS, FALSE, <<>>),
    \* a TCP segment carrying one octet
    MkPacket(seq, 0, "ip4", Client1, Server, "tcp", NoDNS, TRUE, <<0>>) }

\* what the packet source can supply next
NextPackets(seq, sofar) ==
  QueryPackets(seq) \cup ReplyPackets(seq, sofar) \cup OtherPackets(seq)

\* ------------------------------------------------------------------ clock
Advance ==
  /\ fault = "none"
  /\ now' = now + 1
  /\ UNCHANGED <<captureVars, outcome, workerVars, conntable, gcVars, fault,
                 flagVars, logVars, callVars>>

\* the clock of a live capture: it runs on whatever the goroutines do
Tick ==
  /\ now < MaxTime
  /\ Advance

\* -------------------------------------------------------------- doCapture
Outcome(kind, shard, q) == [kind |-> kind, shard |-> shard, q |-> q]

\* a test that finds a network layer in every packet
HasNetworkLayerAlways(p) == TRUE

\* net := packet.NetworkLayer(); net != nil
HasNetworkLayer(p) == p.net # "none"

\* the packet source yields p; a packet without network layer is dropped,
\* any other is held for channels[ShardIndex(p)]
Supply(p) ==
  /\ fault = "none"
  /\ dpc = "read"
  /\ captured' = Append(captured, p)
  /\ IF HasNetworkLayer(p)
       THEN /\ dpc' = "send"
            /\ dpkt' = p
            /\ dchan' = ShardIndex(p)
            /\ outcome' = Append(outcome, Outcome("queued", ShardIndex(p), 0))
       ELSE /\ UNCHANGED <<dpc, dpkt, dchan>>
            /\ outcome' = Append(outcome, Outcome("dropped", 0, 0))
  /\ UNCHANGED <<now, workerVars, conntable, gcVars, fault, flagVars, logVars,
                 callVars>>

\* the packet source of a live capture, up to MaxPackets packets
Capture(p) ==
  /\ Len(captured) < MaxPackets
  /\ Supply(p)

\* ----------------------------------------------------------- handlePacket
\* the DNS message of the packet a worker is handling
DnsOf(p) == getDnsLayer(p).dns

\* the dnsMapEntry of a query; seq tells the stored *layers.DNS apart from
\* every other one
MapEntry(dns, t, seq) == [entry |-> dns, inserted |-> t, seq |-> seq]

\* a store that clears every other key
StoreDropOthers(table, id, e) == [x \in DOMAIN table |-> IF x = id THEN e ELSE NoEntry]

\* a store that leaves an entry already present alone
StoreKeepFirst(table, id, e) == IF table[id] = NoEntry THEN [table EXCEPT ![id] = e] ELSE table

\* conntable[id] = e
StoreEntry(table, id, e) == [table EXCEPT ![id] = e]

\* a branch without the test for a response that found no entry
BranchNoMissTest(dns, item) == IF dns.QR /\ item # NoEntry THEN "delete" ELSE "insert"

\* the branch after the lookup: a response with an entry is a match, a
\* response without one is dropped, anything else is stored as a query
Branch(dns, item) ==
  IF dns.QR /\ item # NoEntry THEN "delete"
  ELSE IF dns.QR /\ item = NoEntry THEN "recv"
  ELSE "insert"

\* a delete that removes nothing
DeleteEntryNever(table, id) == table

\* delete(conntable, id)
DeleteEntry(table, id) == [table EXCEPT ![id] = NoEntry]

\* an opcode test that lets every message through
NonQueryNever(dns) == FALSE

\* dns.OpCode != layers.DNSOpCodeQuery
NonQuery(dns) == dns.OpCode # DNSOpCodeQuery

SetOutcome(p, kind, s, q) ==
  outcome' = [outcome EXCEPT ![p.seq] = Outcome(kind, s, q)]

\* packet := <-packets, then getIpaddrs, getDnsLayer and the opcode filter:
\* the worker goes on to the table lookup, or skips the packet, or panics
Recv(s) ==
  /\ fault = "none"
  /\ dpc = "send"
  /\ dchan = s
  /\ wpc[s] = "recv"
  /\ dpc' = "read"
  /\ dpkt' = NoPacket
  /\ LET r == getDnsLayer(dpkt)
     IN IF r.panic
          THEN /\ fault' = "panic"
               /\ SetOutcome(dpkt, "panic", s, 0)
               /\ UNCHANGED <<wpc, wpkt>>
          ELSE /\ UNCHANGED fault
               /\ IF r.dns = NoDNS
                    THEN /\ SetOutcome(dpkt, "nodns", s, 0)
                         /\ UNCHANGED <<wpc, wpkt>>
                    ELSE IF NonQuery(r.dns)
                      THEN /\ SetOutcome(dpkt, "opcode", s, 0)
                           /\ UNCHANGED <<wpc, wpkt>>
                      ELSE /\ SetOutcome(dpkt, "handling", s, 0)
                           /\ wpc' = [wpc EXCEPT ![s] = "lookup"]
                           /\ wpkt' = [wpkt EXCEPT ![s] = dpkt]
  /\ UNCHANGED <<now, captured, dchan, witem, wout, conntable, gcVars, flagVars,
                 logVars, callVars>>

\* item, foundItem := conntable[dns.ID] and the branch on dns.QR and foundItem;
\* a response without entry is dropped here
Lookup(s) ==
  /\ fault = "none"
  /\ wpc[s] = "lookup"
  /\ LET dns == DnsOf(wpkt[s])
         item == conntable[s][dns.ID]
     IN IF Branch(dns, item) = "delete"
          THEN /\ witem' = [witem EXCEPT ![s] = item]
               /\ wpc' = [wpc EXCEPT ![s] = "delete"]
               /\ UNCHANGED <<wpkt, outcome>>
          ELSE IF Branch(dns, item) = "recv"
            THEN /\ SetOutcome(wpkt[s], "miss", s, 0)
                 /\ wpc' = [wpc EXCEPT ![s] = "recv"]
                 /\ wpkt' = [wpkt EXCEPT ![s] = NoPacket]
                 /\ UNCHANGED witem
            ELSE /\ wpc' = [wpc EXCEPT ![s] = "insert"]
                 /\ UNCHANGED <<wpkt, witem, outcome>>
  /\ UNCHANGED <<now, captureVars, wout, conntable, gcVars, fault, flagVars,
                 logVars, callVars>>

\* a worker that goes back to its receive with records left to send
NextSendNever(recs) == "recv"

\* for _, logEntry := range ...: the next record is sent, or the loop is over
NextSend(recs) == IF recs = <<>> THEN "recv" ELSE "send"

\* delete(conntable, question.ID), then initLogEntry on the stored query and
\* the response; the records wait in wout for logC
Delete(s) ==
  /\ fault = "none"
  /\ wpc[s] = "delete"
  /\ LET question == witem[s].entry
         ips == getIpaddrs(wpkt[s])
         r == initLogEntry(ips[1], ips[2], question, DnsOf(wpkt[s]), now)
     IN /\ conntable' = [conntable EXCEPT ![s] = DeleteEntry(@, question.ID)]
        /\ IF r.panic
             THEN /\ fault' = "panic"
                  /\ SetOutcome(wpkt[s], "panic", s, witem[s].seq)
                  /\ UNCHANGED <<wpc, wpkt, witem, wout>>
             ELSE /\ UNCHANGED fault
                  /\ SetOutcome(wpkt[s], "match", s, witem[s].seq)
                  /\ wout' = [wout EXCEPT ![s] = r.recs]
                  /\ witem' = [witem EXCEPT ![s] = NoEntry]
                  /\ wpkt' = [wpkt EXCEPT ![s] = NoPacket]
                  /\ wpc' = [wpc EXCEPT ![s] = NextSend(r.recs)]
  /\ UNCHANGED <<now, captureVars, gcVars, flagVars, logVars, callVars>>

\* logC <- logEntry: logConn, waiting at logC, takes the next record
Send(s) ==
  /\ fault = "none"
  /\ wpc[s] = "send"
  /\ lpc = "recv"
  /\ lmsg' = Head(wout[s])
  /\ emitted' = Append(emitted, <<s, Head(wout[s])>>)
  /\ wout' = [wout EXCEPT ![s] = Tail(@)]
  /\ wpc' = [wpc EXCEPT ![s] = NextSend(Tail(wout[s]))]
  /\ IF Logs(quiet, filename) = <<>>
       THEN UNCHANGED <<lpc, lidx>>
       ELSE lpc' = "send" /\ lidx' = 1
  /\ UNCHANGED <<now, captureVars, outcome, wpkt, witem, conntable, gcVars, fault,
                 flagVars, sinkmsg, printed, callVars>>

\* conntable[dns.ID] = dnsMapEntry{dns, time.Now()}. A range loop under way
\* may or may not come to visit a key stored meanwhile.
Insert(s) ==
  /\ fault = "none"
  /\ wpc[s] = "insert"
  /\ LET dns == DnsOf(wpkt[s])
         old == conntable[s][dns.ID]
     IN /\ conntable' = [conntable EXCEPT
                           ![s] = StoreEntry(@, dns.ID, MapEntry(dns, now, wpkt[s].seq))]
        /\ SetOutcome(wpkt[s], "store", s, IF old = NoEntry THEN 0 ELSE old.seq)
        /\ \E visit \in BOOLEAN :
             todo' = IF visit /\ gpc[s] # "sleep"
                       THEN [todo EXCEPT ![s] = @ \cup {dns.ID}] ELSE todo
  /\ wpc' = [wpc EXCEPT ![s] = "recv"]
  /\ wpkt' = [wpkt EXCEPT ![s] = NoPacket]
  /\ UNCHANGED <<now, captureVars, witem, wout, gpc, wakeAt, cutoff, gkey, sweeps,
                 sweepAt, fault, flagVars, logVars, callVars>>

\* ---------------------------------------------------------- cleanDnsCache
\* After in place of Before
BeforeSwapped(t, c) == c < t

\* item.inserted.Before(cleanupCutoff)
Before(t, c) == t < c

\* a cutoff twice as far back
CleanupCutoffDoubled(t) == t + 2 * GcAge

\* time.Now().Add(maxAge)
CleanupCutoff(t) == t + GcAge

\* time.Sleep(interval) is over: compute the cutoff and start the range loop
Wake(s) ==
  /\ fault = "none"
  /\ gpc[s] = "sleep"
  /\ now >= wakeAt[s]
  /\ sweeps' = sweeps + 1
  /\ cutoff' = [cutoff EXCEPT ![s] = CleanupCutoff(now)]
  /\ todo' = [todo EXCEPT ![s] = {x \in TxIds : conntable[s][x] # NoEntry}]
  /\ gpc' = [gpc EXCEPT ![s] = "iter"]
  /\ sweepAt' = [sweepAt EXCEPT ![s] = now]
  /\ UNCHANGED <<now, captureVars, outcome, workerVars, conntable, wakeAt, gkey,
                 fault, flagVars, logVars, callVars>>

\* a sweep of a live capture, up to MaxSweeps sweeps
GcWake(s) ==
  /\ sweeps < MaxSweeps
  /\ Wake(s)

\* the range loop yields key k and a copy of its item (a key deleted meanwhile
\* is not yielded); an item inserted before the cutoff is to be deleted
GcNext(s, k) ==
  /\ fault = "none"
  /\ gpc[s] = "iter"
  /\ k \in todo[s]
  /\ todo' = [todo EXCEPT ![s] = @ \ {k}]
  /\ IF conntable[s][k] # NoEntry /\ Before(conntable[s][k].inserted, cutoff[s])
       THEN /\ gpc' = [gpc EXCEPT ![s] = "del"]
            /\ gkey' = [gkey EXCEPT ![s] = k]
       ELSE UNCHANGED <<gpc, gkey>>
  /\ UNCHANGED <<now, captureVars, outcome, workerVars, conntable, wakeAt, cutoff,
                 sweeps, sweepAt, fault, flagVars, logVars, callVars>>

\* delete(*conntable, key): whatever the key holds by now goes
GcDelete(s) ==
  /\ fault = "none"
  /\ gpc[s] = "del"
  /\ conntable' = [conntable EXCEPT ![s] = DeleteEntry(@, gkey[s])]
  /\ outcome' = IF conntable[s][gkey[s]] = NoEntry THEN outcome
                ELSE [outcome EXCEPT ![conntable[s][gkey[s]].seq].kind = "expired"]
  /\ gpc' = [gpc EXCEPT ![s] = "iter"]
  /\ UNCHANGED <<now, captureVars, workerVars, wakeAt, cutoff, todo, gkey,
                 sweeps, sweepAt, fault, flagVars, logVars, callVars>>

\* the range loop is over: back to time.Sleep(interval)
GcSleep(s) ==
  /\ fault = "none"
  /\ gpc[s] = "iter"
  /\ todo[s] = {}
  /\ gpc' = [gpc EXCEPT ![s] = "sleep"]
  /\ wakeAt' = [wakeAt EXCEPT ![s] = now + GcInterval]
  /\ UNCHANGED <<now, captureVars, outcome, workerVars, conntable, cutoff, todo,
                 gkey, sweeps, sweepAt, fault, flagVars, logVars, callVars>>

\* the worker is executing a map operation of handlePacket
WorkerInTable(s) == wpc[s] \in {"lookup", "delete", "insert"}

\* the sweeper is inside its range loop over the map
GcInTable(s) == gpc[s] \in {"iter", "del"}

\* the two goroutines touch the map with no lock between them, one of them
\* writing: the Go runtime may notice and end the process ("fatal error:
\* concurrent map iteration and map write"); when it does not, the accesses
\* take effect in the order of the steps above
RaceFault(s) ==
  /\ fault = "none"
  /\ WorkerInTable(s)
  /\ GcInTable(s)
  /\ wpc[s] \in {"delete", "insert"} \/ gpc[s] = "del"
  /\ fault' = "fatal"
  /\ UNCHANGED <<now, captureVars, outcome, workerVars, conntable, gcVars,
                 flagVars, logVars, callVars>>

\* ------------------------------------------------------------------ logConn
\* logChan <- message for the next sink of logs: the channel is unbuffered,
\* so the send waits until that sink is back at its receive
LogSend ==
  /\ fault = "none"
  /\ lpc = "send"
  /\ LET logs == Logs(quiet, filename)
     IN /\ sinkmsg[logs[lidx]] = NoPacket
        /\ sinkmsg' = [sinkmsg EXCEPT ![logs[lidx]] = lmsg]
        /\ IF lidx = Len(logs)
             THEN lpc' = "recv" /\ lidx' = 0
             ELSE lpc' = "send" /\ lidx' = lidx + 1
  /\ UNCHANGED <<now, captureVars, outcome, workerVars, conntable, gcVars, fault,
                 flagVars, lmsg, emitted, printed, callVars>>

\* logConnStdout, logConnFile: the sink encodes the message it received and
\* writes it, then is back at its receive
SinkWrite(k) ==
  /\ fault = "none"
  /\ sinkmsg[k] # NoPacket
  /\ printed' = [printed EXCEPT ![k] = Append(@, sinkmsg[k])]
  /\ sinkmsg' = [sinkmsg EXCEPT ![k] = NoPacket]
  /\ UNCHANGED <<now, captureVars, outcome, workerVars, conntable, gcVars, fault,
                 flagVars, lpc, lmsg, lidx, emitted, callVars>>

\* ------------------------------------------------------------ specification
Next ==
  \/ Tick
  \/ \E p \in NextPackets(Len(captured) + 1, captured) : Capture(p)
  \/ \E s \in Shards : Recv(s)
  \/ \E s \in Shards : Lookup(s)
  \/ \E s \in Shards : Delete(s)
  \/ \E s \in Shards : Send(s)
  \/ \E s \in Shards : Insert(s)
  \/ \E s \in Shards : GcWake(s)
  \/ \E s \in Shards : \E k \in TxIds : GcNext(s, k)
  \/ \E s \in Shards : GcDelete(s)
  \/ \E s \in Shards : GcSleep(s)
  \/ \E s \in Shards : RaceFault(s)
  \/ LogSend
  \/ \E k \in {"stdout", "file"} : SinkWrite(k)

Spec == Init /\ [][Next]_vars

\* ------------------------------------------------- a run over a pcap file
\* Spec is a live capture, whose packet source never ends. With -pcap the
\* source ends with the file, and the sinks are whatever the flags say.
\* The clock stands still here: no sweeper comes out of its first sleep.

\* the log file names of the model: none, or one
LogFiles == {"", "dns.log"}

InitFanout ==
  /\ InitPipeline
  /\ quiet \in BOOLEAN
  /\ filename \in LogFiles
  /\ call = NoCall
  /\ ret = NoCall

\* the range over packetSource.Packets() ends: doCapture returns, main returns
\* and the process is over, whatever its goroutines were doing
Exit ==
  /\ fault = "none"
  /\ dpc = "read"
  /\ fault' = "exit"
  /\ UNCHANGED <<now, captureVars, outcome, workerVars, conntable, gcVars,
                 flagVars, logVars, callVars>>

\* a step of a worker, of logConn or of a sink
Running ==
  \/ \E s \in Shards : Recv(s)
  \/ \E s \in Shards : Lookup(s)
  \/ \E s \in Shards : Delete(s)
  \/ \E s \in Shards : Send(s)
  \/ \E s \in Shards : Insert(s)
  \/ LogSend
  \/ \E k \in {"stdout", "file"} : SinkWrite(k)

NextFanout ==
  \/ \E p \in NextPackets(Len(captured) + 1, captured) : Capture(p)
  \/ Running
  \/ Exit

\* the scheduler runs a goroutine that can take a step; nothing obliges the
\* packet source to supply a packet or to end
SpecFanout == InitFanout /\ [][NextFanout]_vars /\ WF_vars(Running)

\* ------------------------------------------------- a burst of DNS traffic
\* queries and their replies only, more of them, with the clock standing still

CaptureBurst(p) ==
  /\ Len(captured) < MaxBurst
  /\ Supply(p)

NextOrder ==
  \/ \E p \in QueryPackets(Len(captured) + 1) \cup
               ReplyPackets(Len(captured) + 1, captured) : CaptureBurst(p)
  \/ Running

SpecOrder == Init /\ [][NextOrder]_vars

\* ------------------------------------------------ sweeps against the clock
\* Queries, few of them answered, and sweepers whose timers are punctual:
\* the clock does not pass the end of a sleep while the table holds an entry,
\* and a sweep takes SweepTicks at most. A sweep of an empty table changes
\* nothing but the time of the next one; here a sweeper with an empty table
\* sleeps on until there is an entry.

\* the sleep of the sweeper of shard s is over and its table is not empty
Due(s) ==
  /\ gpc[s] = "sleep"
  /\ now >= wakeAt[s]
  /\ \E x \in TxIds : conntable[s][x] # NoEntry

\* the sweep of shard s has taken all the time a sweep may take
Overdue(s) == gpc[s] # "sleep" /\ now >= sweepAt[s] + SweepTicks

TimedTick ==
  /\ now < LifeTime
  /\ \A s \in Shards : ~Due(s) /\ ~Overdue(s)
  /\ Advance

GcWakeTimed(s) ==
  /\ sweeps < LifeSweeps
  /\ Due(s)
  /\ Wake(s)

\* the queries, and the replies that report a failure
LifePackets(seq, sofar) ==
  QueryPackets(seq) \cup {r \in ReplyPackets(seq, sofar) : r.dns.ResponseCode # 0}

NextLifetime ==
  \/ TimedTick
  \/ \E p \in LifePackets(Len(captured) + 1, captured) : Capture(p)
  \/ Running
  \/ \E s \in Shards : GcWakeTimed(s)
  \/ \E s \in Shards : \E k \in TxIds : GcNext(s, k)
  \/ \E s \in Shards : GcDelete(s)
  \/ \E s \in Shards : GcSleep(s)
  \/ \E s \in Shards : RaceFault(s)

SpecLifetime == Init /\ [][NextLifetime]_vars

\* ------------------------------------------- direct calls of the pure parts
\* everything but call and ret, at rest
InitIdle ==
  /\ InitPipeline
  /\ quiet = FALSE
  /\ filename = ""

\* the arguments initLogEntry is called with: any stored query, any response
BuildQuestions ==
  {MkDNS(id, FALSE, DNSOpCodeQuery, 0, qs, <<>>) :
     id \in TxIds,
     qs \in {<<>>, <<MkQuestion("example.com", 1)>>, <<MkQuestion("example.org", 28)>>}}

BuildReplies ==
  {MkDNS(id, TRUE, DNSOpCodeQuery, rc, <<>>, AnswerList(n)) :
     id \in TxIds, rc \in {0, 2, 3}, n \in 0 .. MaxAnswers}

BuildCalls ==
  {[fn |-> "initLogEntry", srcIP |-> ips[1], dstIP |-> ips[2], question |-> q,
    reply |-> r] :
     ips \in {<<Server, Client1>>, <<Server, Client2>>},
     q \in BuildQuestions, r \in BuildReplies}

InitBuild ==
  /\ InitIdle
  /\ call \in BuildCalls
  /\ ret = NoCall

\* initLogEntry(srcIP, dstIP, question, reply) returns, or panics
CallInitLogEntry ==
  /\ call.fn = "initLogEntry"
  /\ ret = NoCall
  /\ ret' = [fn |-> "initLogEntry",
             res |-> initLogEntry(call.srcIP, call.dstIP, call.question,
                                  call.reply, now)]
  /\ UNCHANGED <<now, captureVars, outcome, workerVars, conntable, gcVars, fault,
                 flagVars, logVars, call>>

SpecBuild == InitBuild /\ [][CallInitLogEntry]_vars

\* the packets getDnsLayer is called with
Octets == 0 .. 3

RECURSIVE OctetSeqs(_)
OctetSeqs(n) ==
  IF n = 0 THEN {<<>>}
  ELSE OctetSeqs(n - 1) \cup
       {Append(q, o) : q \in {r \in OctetSeqs(n - 1) : Len(r) = n - 1}, o \in Octets}

ExtractPackets ==
  {MkPacket(1, 0, "ip4", Client1, Server, "tcp", NoDNS, TRUE, octets) :
     octets \in OctetSeqs(MaxPayload)}
  \cup {MkPacket(1, 0, "ip4", Client1, Server, tr, d, FALSE, <<>>) :
          tr \in {"udp", "tcp", "none"},
          d \in {NoDNS, MkDNS(1, FALSE, DNSOpCodeQuery, 0,
                              <<MkQuestion("example.com", 1)>>, <<>>)}}

InitExtract ==
  /\ InitIdle
  /\ call \in {[fn |-> "getDnsLayer", packet |-> p] : p \in ExtractPackets}
  /\ ret = NoCall

\* getDnsLayer(packet) returns, or panics
CallGetDnsLayer ==
  /\ call.fn = "getDnsLayer"
  /\ ret = NoCall
  /\ ret' = [fn |-> "getDnsLayer", res |-> getDnsLayer(call.packet)]
  /\ UNCHANGED <<now, captureVars, outcome, workerVars, conntable, gcVars, fault,
                 flagVars, logVars, call>>

SpecExtract == InitExtract /\ [][CallGetDnsLayer]_vars

\* ------------------------------------------------------------------ claims
Packets == 1 .. Len(captured)

\* worker s completes the step it is at
DeleteStep(s) == wpc[s] = "delete" /\ outcome'[wpkt[s].seq] # outcome[wpkt[s].seq]
LookupStep(s) == wpc[s] = "lookup" /\ wpc'[s] # "lookup"

\* query q was overwritten in its table by a later query with its ID
Superseded(q) ==
  \E j \in Packets : outcome[j].kind \in {"store", "expired"} /\ outcome[j].q = q

\* C1: when a worker matches a response with ID x against the stored query
\* (the entry not evicted since the lookup), x leaves the table and the
\* records to be put on logC carry Query_ID x, the stored query's question
\* and type, the response's source as Server and its destination as Client;
\* a success response with one answer gives exactly one record, with that
\* answer's value, type and TTL.
C1_Match ==
  [][\A s \in Shards :
       (DeleteStep(s) /\ conntable[s][DnsOf(wpkt[s]).ID] = witem[s]) =>
         LET q == witem[s].entry
             r == DnsOf(wpkt[s])
         IN /\ conntable'[s][r.ID] = NoEntry
            /\ fault' = "none"
            /\ \A i \in 1 .. Len(wout'[s]) :
                 /\ wout'[s][i].Query_ID = r.ID
                 /\ wout'[s][i].Question = q.Questions[1].Name
                 /\ wout'[s][i].Question_Type = TypeString(q.Questions[1].Type)
                 /\ wout'[s][i].Server = wpkt[s].src
                 /\ wout'[s][i].Client = wpkt[s].dst
            /\ (r.ResponseCode = 0 /\ Len(r.Answers) = 1) =>
                 /\ Len(wout'[s]) = 1
                 /\ wout'[s][1].Answer = RrString(r.Answers[1])
                 /\ wout'[s][1].Answer_Type = TypeString(r.Answers[1].Type)
                 /\ wout'[s][1].TTL = r.Answers[1].TTL]_vars

\* C2: a worker that looks up a response whose ID has no entry in its table
\* puts no record on logC, leaves the table as it is, and is back at the
\* receive for the next packet, with no fault.
C2_Miss ==
  [][\A s \in Shards :
       (/\ LookupStep(s)
        /\ DnsOf(wpkt[s]).QR
        /\ conntable[s][DnsOf(wpkt[s]).ID] = NoEntry) =>
         /\ conntable'[s] = conntable[s]
         /\ wout'[s] = <<>>
         /\ emitted' = emitted
         /\ wpc'[s] = "recv"
         /\ fault' = "none"]_vars

\* a response was dropped for want of an entry, and its worker is back at the
\* receive
C2_Witness ==
  \E i \in Packets :
    /\ outcome[i].kind = "miss"
    /\ wpc[outcome[i].shard] = "recv"
    /\ fault = "none"

\* C3 as stated: the reply to a query that was overwritten by a second query
\* with its ID is never matched.
C3_LateAnswerDropped ==
  \A r \in Packets :
    (captured[r].re > 0 /\ Superseded(captured[r].re)) => outcome[r].kind # "match"

\* C3, amended: no response is ever matched against an overwritten query;
\* the entry a response with that ID finds is the later query's, whichever
\* of the two queries the response was sent in reply to.
C3_OnlySecondMatched ==
  \A r \in Packets :
    outcome[r].kind \in {"match", "panic"} /\ outcome[r].q > 0 =>
      /\ ~Superseded(outcome[r].q)
      /\ captured[outcome[r].q].dns.ID = captured[r].dns.ID
      /\ outcome[outcome[r].q].shard = outcome[r].shard

\* a response was matched against a query that had overwritten an earlier one
C3_Witness ==
  \E r \in Packets :
    /\ outcome[r].kind = "match"
    /\ outcome[outcome[r].q].q > 0

\* C4 as stated: once a sweep of the shard has run, no entry is in the table
\* at a clock reading >= T + |maxAge|, T being when it was stored.
C4_AbsentAfterAnySweep ==
  \A s \in Shards : \A x \in TxIds :
    (/\ conntable[s][x] # NoEntry
     /\ gpc[s] = "sleep"
     /\ sweepAt[s] >= 0) =>
      ~(now >= conntable[s][x].inserted - GcAge)

\* C4, amended: once a sweep that began later than T + |maxAge| has
\* completed, the entry stored at T is not in the table.
C4_AbsentAfterLateSweep ==
  \A s \in Shards : \A x \in TxIds :
    (/\ conntable[s][x] # NoEntry
     /\ gpc[s] = "sleep"
     /\ sweepAt[s] >= 0) =>
      ~(sweepAt[s] > conntable[s][x].inserted - GcAge)

\* a sweep has completed and deleted a stored query
C4_Witness ==
  \E q \in Packets :
    /\ outcome[q].kind = "expired"
    /\ gpc[outcome[q].shard] = "sleep"
    /\ sweepAt[outcome[q].shard] > 0

\* C5: the worker and the sweeper of a shard are never both inside an
\* operation on the shard's table.
C5_MutualExclusion == \A s \in Shards : ~(WorkerInTable(s) /\ GcInTable(s))

\* C6: every packet handed over goes to a channel index in 0..7, and the reply
\* to a query goes to the worker that got the query.
C6_CoLocation ==
  /\ dpc = "send" => dchan \in Shards
  /\ \A r \in Packets :
       (captured[r].re > 0 /\ outcome[r].kind # "dropped") =>
         /\ outcome[r].shard \in Shards
         /\ outcome[r].shard = outcome[captured[r].re].shard

\* a reply was matched against the query it was sent for
C6_Witness ==
  \E r \in Packets :
    /\ captured[r].re > 0
    /\ outcome[r].kind = "match"
    /\ outcome[r].q = captured[r].re

\* C7: for a response whose status is not success, initLogEntry returns
\* exactly one record, whatever answers the response carries, with the status
\* name as Answer, an empty Answer_Type and TTL 0.
C7_FailureStatus ==
  (ret.fn = "initLogEntry" /\ call.reply.ResponseCode # 0) =>
    /\ ~ret.res.panic
    /\ Len(ret.res.recs) = 1
    /\ ret.res.recs[1].Answer = ResponseCodeString(call.reply.ResponseCode)
    /\ ret.res.recs[1].Answer_Type = ""
    /\ ret.res.recs[1].TTL = 0

\* C8: for a success response with k answers, initLogEntry returns exactly k
\* records in answer order, all with the same Query_ID, Response_Code,
\* Question, Question_Type, Server and Client, the i-th with the i-th
\* answer's type, value and TTL.
C8_SuccessStatus ==
  (ret.fn = "initLogEntry" /\ call.reply.ResponseCode = 0) =>
    /\ ~ret.res.panic
    /\ Len(ret.res.recs) = Len(call.reply.Answers)
    /\ \A i \in 1 .. Len(ret.res.recs) :
         /\ ret.res.recs[i].Query_ID = call.reply.ID
         /\ ret.res.recs[i].Response_Code = 0
         /\ ret.res.recs[i].Question = call.question.Questions[1].Name
         /\ ret.res.recs[i].Question_Type = TypeString(call.question.Questions[1].Type)
         /\ ret.res.recs[i].Server = call.srcIP
         /\ ret.res.recs[i].Client = call.dstIP
         /\ ret.res.recs[i].Answer = RrString(call.reply.Answers[i])
         /\ ret.res.recs[i].Answer_Type = TypeString(call.reply.Answers[i].Type)
         /\ ret.res.recs[i].TTL = call.reply.Answers[i].TTL

\* C9: whatever packets a worker is given (packets that are not DNS, opcodes
\* other than Query, queries and responses without a question), it never
\* faults: the process never dies in a worker.
C9_NoFault == fault = "none"

\* C10: on a TCP packet getDnsLayer returns "not DNS" when there is no
\* payload, and otherwise the message decoded from the octets after the first
\* two, or "not DNS"; it never faults.
C10_TcpExtraction ==
  (ret.fn = "getDnsLayer" /\ call.packet.transport = "tcp") =>
    /\ ~ret.res.panic
    /\ ~call.packet.hasPayload => ret.res.dns = NoDNS
    /\ call.packet.hasPayload =>
         ret.res.dns \in {NoDNS, DecodeDNS(SliceFrom(call.packet.payload, TcpLengthPrefix))}

\* ------------------------------------------------------------------ sinks
\* the sinks logConn set up
Sinks == {Logs(quiet, filename)[i] : i \in 1 .. Len(Logs(quiet, filename))}

\* no run of the model puts more records than this on logC
MaxRecords == MaxPackets * MaxAnswers

\* C11: every record that a worker has put on logC is in the end written by
\* every sink that is configured: the n-th record of logC becomes the n-th
\* record of each sink.
C11_FanOutDelivery ==
  \A n \in 1 .. MaxRecords : \A k \in {"stdout", "file"} :
    (Len(emitted) >= n /\ k \in Sinks) ~> (Len(printed[k]) >= n)

\* the position of sink k in logs
SinkIndex(k) == CHOOSE i \in 1 .. Len(Logs(quiet, filename)) : Logs(quiet, filename)[i] = k

\* logConn holds a message that sink k has not been given yet
Awaiting(k) == lpc = "send" /\ SinkIndex(k) >= lidx

\* C12: sinks are not coupled: whenever a configured sink is at its receive
\* and logConn holds a message that sink has not been given, logConn is not
\* held up by another sink that is busy.
C12_SinkIndependence ==
  \A k \in Sinks :
    (Awaiting(k) /\ sinkmsg[k] = NoPacket)
      => sinkmsg[Logs(quiet, filename)[lidx]] = NoPacket

\* C20: with every sink draining, the pipeline does not stall for good: a
\* worker that has taken a packet comes back to its receive, with every record
\* it produced accepted by logC, and the dispatcher holding a packet gets to
\* hand it over.
C20_PipelineProgress ==
  /\ \A s \in Shards : (wpc[s] # "recv") ~> (wpc[s] = "recv" /\ wout[s] = <<>>)
  /\ (dpc = "send") ~> (dpc = "read")

\* ------------------------------------------------------------ worker steps
\* worker s stores the query it is handling
InsertStep(s) == wpc[s] = "insert" /\ wpc'[s] # "insert"

\* C13: a standard query (QR unset) with ID x always goes from the lookup to
\* the store, and the store sets the entry of x to that very message with the
\* current time as its arrival time, whatever the table held for x; it leaves
\* the entries of every other ID and of every other shard as they were, puts
\* nothing on logC and has no record waiting for it.
C13_QueryStep ==
  [][\A s \in Shards :
       /\ (LookupStep(s) /\ ~DnsOf(wpkt[s]).QR) =>
            /\ wpc'[s] = "insert"
            /\ conntable' = conntable
            /\ emitted' = emitted
            /\ wout' = wout
       /\ InsertStep(s) =>
            LET dns == DnsOf(wpkt[s])
            IN /\ ~dns.QR
               /\ dns.OpCode = DNSOpCodeQuery
               /\ conntable'[s][dns.ID].entry = dns
               /\ conntable'[s][dns.ID].inserted = now
               /\ conntable'[s][dns.ID].seq = wpkt[s].seq
               /\ \A x \in TxIds \ {dns.ID} : conntable'[s][x] = conntable[s][x]
               /\ \A t \in Shards \ {s} : conntable'[t] = conntable[t]
               /\ emitted' = emitted
               /\ wout' = wout
               /\ wout[s] = <<>>
               /\ wpc'[s] = "recv"
               /\ fault' = fault]_vars

\* a query has overwritten the pending query with its ID while the query of
\* another ID stays pending on the shard
C13_Witness ==
  \E i \in Packets :
    /\ outcome[i].kind = "store"
    /\ outcome[i].q # 0
    /\ conntable[outcome[i].shard][DnsOf(captured[i]).ID] # NoEntry
    /\ conntable[outcome[i].shard][DnsOf(captured[i]).ID].seq = i
    /\ \E x \in TxIds \ {DnsOf(captured[i]).ID} : conntable[outcome[i].shard][x] # NoEntry

\* worker s takes from its channel a DNS message whose opcode is not Query
OpcodeStep(s) ==
  /\ dpc = "send"
  /\ dchan = s
  /\ dpc' = "read"
  /\ ~getDnsLayer(dpkt).panic
  /\ DnsOf(dpkt) # NoDNS
  /\ DnsOf(dpkt).OpCode # DNSOpCodeQuery

\* C14: taking a DNS message whose opcode is not standard Query, query or
\* response, its ID pending or not, changes no table, puts nothing on logC,
\* leaves no record waiting and has the worker back at its receive.
C14_OpcodeFilter ==
  [][\A s \in Shards :
       OpcodeStep(s) =>
         /\ conntable' = conntable
         /\ emitted' = emitted
         /\ wout' = wout
         /\ witem' = witem
         /\ wpc[s] = "recv"
         /\ wpc'[s] = "recv"
         /\ fault' = fault]_vars

\* the packets, queries or responses as qr says, that a worker has skipped for
\* their opcode and whose ID is the ID of a query still pending on its shard
SkippedWhilePending(qr) ==
  {i \in Packets :
     /\ outcome[i].kind = "opcode"
     /\ captured[i].dns.QR = qr
     /\ \E j \in 1 .. (i - 1) :
          /\ outcome[j].kind = "store"
          /\ outcome[j].shard = outcome[i].shard
          /\ captured[j].dns.ID = captured[i].dns.ID
          /\ conntable[outcome[i].shard][captured[i].dns.ID] # NoEntry
          /\ conntable[outcome[i].shard][captured[i].dns.ID].seq = j}

\* an update and an update response were skipped, both carrying the ID of a
\* query that is still pending
C14_Witness == SkippedWhilePending(FALSE) # {} /\ SkippedWhilePending(TRUE) # {}

\* ----------------------------------------------------------- sweeper steps
\* the sweeper of shard s wakes up and starts a sweep
GcWakeStep(s) == gpc[s] = "sleep" /\ gpc'[s] = "iter"

\* the sweeper of shard s executes delete(*conntable, key)
GcDeleteStep(s) == gpc[s] = "del" /\ gpc'[s] = "iter"

\* C15: with maxAge negative a sweep works with cutoff = now + maxAge, taken
\* when it starts, and the only change a sweeper ever makes to a table is to
\* remove an entry whose arrival time is strictly before that cutoff: an entry
\* of age |maxAge| or less at the sweep is not removed, and no entry is
\* inserted or modified.
C15_GcSelectivity ==
  [][\A s \in Shards :
       /\ GcWakeStep(s) => cutoff'[s] = now + GcAge /\ conntable' = conntable
       /\ GcDeleteStep(s) =>
            \A x \in TxIds :
              conntable'[s][x] # conntable[s][x] =>
                /\ conntable'[s][x] = NoEntry
                /\ conntable[s][x].inserted < cutoff[s]
                /\ sweepAt[s] - conntable[s][x].inserted > -GcAge]_vars

\* ------------------------------------------------------- order of records
\* the records logC has accepted from shard s, in the order it accepted them
FromShard(s) ==
  LET mine == SelectSeq(emitted, LAMBDA e : e[1] = s)
  IN [i \in 1 .. Len(mine) |-> mine[i][2]]

\* records without their clock reading
NoTimestamp(recs) == [i \in 1 .. Len(recs) |-> [recs[i] EXCEPT !.Timestamp = 0]]

RECURSIVE MatchRecords(_, _)
\* what initLogEntry returns for the matches of shard s among the first n
\* packets, one match after the other in the order of the responses
MatchRecords(n, s) ==
  IF n = 0 THEN <<>>
  ELSE MatchRecords(n - 1, s) \o
       (IF outcome[n].kind = "match" /\ outcome[n].shard = s
          THEN LET ips == getIpaddrs(captured[n])
               IN initLogEntry(ips[1], ips[2], DnsOf(captured[outcome[n].q]),
                               DnsOf(captured[n]), 0).recs
          ELSE <<>>)

\* C16: on every shard, the records logC has accepted from it, followed by the
\* records its worker still has to send, are the records of its matches, match
\* after match in the order the responses were processed and in answer order
\* within a match; the worker has records left only while it is sending them,
\* so it takes no packet before the last record of a match is on logC.
C16_Atomicity ==
  \A s \in Shards :
    /\ NoTimestamp(FromShard(s) \o wout[s]) = MatchRecords(Len(captured), s)
    /\ wpc[s] = "send" <=> wout[s] # <<>>

\* a shard has made two matches, one of them with two records, and all their
\* records are on logC
C16_Witness ==
  \E s \in Shards :
    /\ Cardinality({i \in Packets : outcome[i].kind = "match" /\ outcome[i].shard = s}) = 2
    /\ Len(FromShard(s)) >= 3
    /\ wout[s] = <<>>

\* ---------------------------------------------------------------- dispatch
\* a worker is done with packet i
Finished(i) == outcome[i].kind \in {"nodns", "opcode", "miss", "store", "expired", "match", "panic"}

\* C17: a packet without network layer is dropped by the dispatcher and no
\* worker ever holds it. A packet with a network layer belongs to the one
\* channel its flow hash selects: until the worker of that channel takes it
\* the dispatcher holds it and reads no further packet, afterwards that worker
\* and no other holds it until it is done with it (or has died of it); and a
\* worker that has taken a packet is done with every earlier packet of its
\* channel.
C17_Dispatch ==
  /\ \A i \in Packets :
       /\ captured[i].net = "none" <=> outcome[i].kind = "dropped"
       /\ outcome[i].kind = "dropped" =>
            dpkt # captured[i] /\ \A s \in Shards : wpkt[s] # captured[i]
       /\ outcome[i].kind # "dropped" =>
            /\ outcome[i].shard = ShardIndex(captured[i])
            /\ outcome[i].kind = "queued" <=>
                 (dpc = "send" /\ dpkt = captured[i] /\ dchan = outcome[i].shard)
            /\ outcome[i].kind = "queued" => i = Len(captured)
            /\ \A s \in Shards :
                 wpkt[s] = captured[i] =>
                   s = outcome[i].shard /\ outcome[i].kind \in {"handling", "panic"}
            /\ outcome[i].kind = "handling" => wpkt[outcome[i].shard] = captured[i]
            /\ Finished(i) => dpkt # captured[i]
  /\ \A i, j \in Packets :
       (/\ i < j
        /\ outcome[i].kind # "dropped"
        /\ outcome[j].kind \notin {"dropped", "queued"}
        /\ outcome[i].shard = outcome[j].shard) => Finished(i)

\* a packet was dropped for want of a network layer, and a worker is done
\* with two packets of its channel
C17_Witness ==
  \E i, j, k \in Packets :
    /\ outcome[i].kind = "dropped"
    /\ j < k
    /\ Finished(j)
    /\ Finished(k)
    /\ outcome[j].shard = outcome[k].shard

\* ------------------------------------------------------- match at most once
\* the responses that were matched against stored query q
MatchesOf(q) ==
  {i \in Packets : outcome[i].kind \in {"match", "panic"} /\ outcome[i].q = q}

\* the packets the worker of shard s has handled with one of the outcomes kinds
HandledAs(s, kinds) ==
  {i \in Packets : outcome[i].kind \in kinds /\ outcome[i].shard = s}

\* C18: a stored query is matched by at most one response, a matched response
\* is matched against a query stored earlier on its own shard under its ID,
\* and on no shard are there more matches than stored queries, whatever the
\* sweeper does in between.
C18_MatchOnce ==
  /\ \A q \in Packets : Cardinality(MatchesOf(q)) <= 1
  /\ \A i \in Packets :
       outcome[i].kind = "match" =>
         /\ outcome[i].q \in 1 .. (i - 1)
         /\ outcome[outcome[i].q].kind \in {"store", "expired"}
         /\ outcome[outcome[i].q].shard = outcome[i].shard
         /\ DnsOf(captured[outcome[i].q]).ID = DnsOf(captured[i]).ID
  /\ \A s \in Shards :
       Cardinality(HandledAs(s, {"match"})) <= Cardinality(HandledAs(s, {"store", "expired"}))

\* a query was matched and a second response to it found no entry
C18_Witness ==
  \E i, j \in Packets :
    /\ i < j
    /\ outcome[i].kind = "match"
    /\ outcome[j].kind = "miss"
    /\ captured[j].re = outcome[i].q

\* ---------------------------------------------------------- entry lifetime
\* the age of the oldest entry of any table, 0 when all are empty
OldestAge ==
  LET ages == UNION {{now - conntable[s][x].inserted :
                        x \in {y \in TxIds : conntable[s][y] # NoEntry}} :
                      s \in Shards} \cup {0}
  IN CHOOSE a \in ages : \A b \in ages : b <= a

====
